---- MODULE Spec2Model ----
(***************************************************************************)
(* docs2mdd: a daemon that watches a source tree, waits for new files to   *)
(* become stable, converts them to Markdown plus assets and mirrors them   *)
(* into a destination tree.  The model covers watcher.py (event handler,   *)
(* stability wait, _process_file, backlog sweep) and daemon.py (start,     *)
(* PID file, run sequence, signals, cleanup).                              *)
(*                                                                         *)
(* Time: the filesystem clock `now` is monotonic; every write stamps the   *)
(* file with the current value of the clock.  A source file is modified at *)
(* most once per clock tick, so a modification time names one version.     *)
(***************************************************************************)
EXTENDS Integers, Sequences, FiniteSets, TLC

\* ------------------------------------------------------------------ bounds
\* last value of the filesystem clock
MaxTime == 1
\* pending filesystem events per observer
MaxQueue == 1
\* embedded images of one source document
MaxImgs == 1
\* explicitly enumerated polls of one stability wait (the rest repeat the tail)
MaxObs == 2

\* ------------------------------------------------------- program constants
\* ConversionHandler.STABILITY_CHECK_INTERVAL, in tenths of a second (0.5 s)
STABILITY_CHECK_INTERVAL == 5
\* ConversionHandler.STABILITY_CHECK_COUNT
STABILITY_CHECK_COUNT == 3
\* ConversionHandler.MAX_WAIT_TIME, in tenths of a second (30.0 s)
MAX_WAIT_TIME == 300

\* Path.exists() is false: the modification time of a file that is not there
NoFile == -1

\* --------------------------------------------------------------- the trees
\* A source path relative to config.src_dir: parent directory, stem, suffix.
ReportPdf == [dir |-> "docs", stem |-> "report", ext |-> ".pdf"]
ReportDocx == [dir |-> "docs", stem |-> "report", ext |-> ".docx"]
NotesPdf == [dir |-> "docs", stem |-> "notes", ext |-> ".pdf"]
DraftHwpx == [dir |-> "docs", stem |-> "draft", ext |-> ".hwpx"]
MemoTxt == [dir |-> "docs", stem |-> "memo", ext |-> ".txt"]
ScanPDF == [dir |-> "docs", stem |-> "scan", ext |-> ".PDF"]
ScansDir == [dir |-> "docs", stem |-> "scans", ext |-> ""]
NoPath == [dir |-> "", stem |-> "", ext |-> ""]

Paths == {ReportPdf, ReportDocx, NotesPdf, DraftHwpx, MemoTxt, ScanPDF}

\* the files the environment of Spec creates and modifies
WatchFiles == {ReportPdf, ReportDocx}

Time == 0..MaxTime
Stamp == Time \cup {NoFile}

\* A source document's content: corrupt (its converter raises), or well
\* formed with a number of embedded images.
Docs == {[ok |-> FALSE, imgs |-> 0]} \cup {[ok |-> TRUE, imgs |-> n] : n \in 0..MaxImgs}
NoDoc == [ok |-> FALSE, imgs |-> 0]

\* str.lower() on a suffix
LowerExt(e) ==
    CASE e = ".PDF" -> ".pdf"
      [] e = ".DOCX" -> ".docx"
      [] OTHER -> e

\* config.supported_extensions as generated by `docs2mdd init`
SupportedExtensions == <<".pdf", ".docx", ".hwpx", ".html", ".htm">>

\* config.assets_dirname
AssetsDirname == "assets"

\* FileWatcher.converters: each converter's supported_extensions, in order
Converters == << [name |-> "PDFConverter", exts |-> {".pdf"}],
                 [name |-> "DocxConverter", exts |-> {".docx"}] >>

InSeq(x, s) == \E i \in 1..Len(s) : s[i] = x

\* Converter.can_handle
CanHandle(c, f) == LowerExt(f.ext) \in c.exts

\* ConversionHandler._find_converter: index of the first converter that can
\* handle the file, 0 when there is none
FindConverter(f) ==
    IF \E i \in 1..Len(Converters) : CanHandle(Converters[i], f)
    THEN CHOOSE i \in 1..Len(Converters) :
            /\ CanHandle(Converters[i], f)
            /\ \A j \in 1..(i - 1) : ~CanHandle(Converters[j], f)
    ELSE 0

\* output_dir = dest_dir / relative_path.parent / file_path.stem
OutputDir(f) == [dir |-> f.dir, sub |-> f.stem]

\* md_path = output_dir / (stem + ".md")
MdPath(f) == [dir |-> f.dir, sub |-> f.stem, name |-> f.stem, suffix |-> ".md"]

\* assets_dir = output_dir / config.assets_dirname
AssetsDir(f) == [dir |-> f.dir, sub |-> f.stem, name |-> AssetsDirname, suffix |-> ""]

OutDirs == {OutputDir(f) : f \in Paths}

\* src_dir.rglob("*" + ext): the glob matches the suffix case-sensitively
GlobMatches(f, ext) == f.ext = ext

\* The order in which process_existing_files visits paths: for each
\* configured extension, the paths the glob yields.
PathOrder == <<ReportPdf, NotesPdf, ScanPDF, ReportDocx, DraftHwpx, MemoTxt>>

RECURSIVE SelectSeq2(_, _, _)
SelectSeq2(s, ext, i) ==
    IF i > Len(s) THEN <<>>
    ELSE IF GlobMatches(s[i], ext) THEN <<s[i]>> \o SelectSeq2(s, ext, i + 1)
    ELSE SelectSeq2(s, ext, i + 1)

RECURSIVE SweepFrom(_)
SweepFrom(k) ==
    IF k > Len(SupportedExtensions) THEN <<>>
    ELSE SelectSeq2(PathOrder, SupportedExtensions[k], 1) \o SweepFrom(k + 1)

SweepOrder == SweepFrom(1)

\* -------------------------------------------------------- stability wait
\* What one poll of the file sees: its size, that it is gone, or an OSError.
ObsSizes == {0, 1, 2}
ObsSet == {[k |-> "size", n |-> n] : n \in ObsSizes}
            \cup {[k |-> "gone", n |-> 0], [k |-> "oserror", n |-> 0]}

RECURSIVE SeqsUpTo(_, _)
SeqsUpTo(S, n) ==
    IF n = 0 THEN {<<>>}
    ELSE LET shorter == SeqsUpTo(S, n - 1)
         IN  shorter \cup {Append(s, x) : s \in {t \in shorter : Len(t) = n - 1}, x \in S}

ObsPrefixes == SeqsUpTo(ObsSet, MaxObs)

\* poll i sees obs[i], and the tail once the enumerated polls are used up
ObsAt(obs, tail, i) == IF i <= Len(obs) THEN obs[i] ELSE tail

\* ConversionHandler._wait_for_file_ready, the loop from poll i on.
RECURSIVE WaitLoop(_, _, _, _, _, _)
WaitLoop(obs, tail, i, stable_count, last_size, elapsed) ==
    IF ~(elapsed < MAX_WAIT_TIME)
    THEN [ready |-> FALSE, polls |-> i - 1]
    ELSE LET o == ObsAt(obs, tail, i)
             next == elapsed + STABILITY_CHECK_INTERVAL
         IN  IF o.k = "gone"
             THEN [ready |-> FALSE, polls |-> i]
             ELSE IF o.k = "oserror"
             THEN WaitLoop(obs, tail, i + 1, 0, last_size, next)
             ELSE IF o.n = 0
             THEN WaitLoop(obs, tail, i + 1, 0, o.n, next)
             ELSE IF o.n = last_size
             THEN IF stable_count + 1 >= STABILITY_CHECK_COUNT
                  THEN [ready |-> TRUE, polls |-> i]
                  ELSE WaitLoop(obs, tail, i + 1, stable_count + 1, o.n, next)
             ELSE WaitLoop(obs, tail, i + 1, 0, o.n, next)

WaitForFileReady(obs, tail) == WaitLoop(obs, tail, 1, 0, -1, 0)

\* the results _wait_for_file_ready can return to on_created
WaitResults == {WaitForFileReady(obs, tail).ready : obs \in ObsPrefixes, tail \in ObsSet}

\* The same loop, one poll at a time.  w holds the locals, o is what the
\* poll sees.
\* the while condition
TimeLeftInclusive(elapsed) == elapsed <= MAX_WAIT_TIME

TimeLeft(elapsed) == elapsed < MAX_WAIT_TIME

\* a counter that any non-zero size advances
StableCountNonZero(w, o) ==
    IF o.k = "size" /\ o.n # 0 THEN w.stable_count + 1 ELSE 0

\* a counter that an OSError leaves as it is
StableCountKeepOnError(w, o) ==
    IF o.k = "oserror" THEN w.stable_count
    ELSE IF o.k = "size" /\ o.n # 0 /\ o.n = w.last_size THEN w.stable_count + 1
    ELSE 0

\* stable_count after the poll: reset by an empty file, a changed size and
\* an OSError, advanced by a size equal to last_size
StableCount(w, o) ==
    IF o.k = "size" /\ o.n # 0 /\ o.n = w.last_size THEN w.stable_count + 1 ELSE 0

\* last_size after the poll
LastSize(w, o) == IF o.k = "size" THEN o.n ELSE w.last_size

\* a loop that went on polling a file that is gone
ReturnsIgnoreGone(w, o) ==
    IF StableCount(w, o) >= STABILITY_CHECK_COUNT THEN "true"
    ELSE IF ~TimeLeft(w.elapsed + STABILITY_CHECK_INTERVAL) THEN "false"
    ELSE "none"

\* a loop that asked for one more unchanged poll
ReturnsLate(w, o) ==
    IF o.k = "gone" THEN "false"
    ELSE IF StableCount(w, o) > STABILITY_CHECK_COUNT THEN "true"
    ELSE IF ~TimeLeft(w.elapsed + STABILITY_CHECK_INTERVAL) THEN "false"
    ELSE "none"

\* what the poll makes the function return: "false" when the file is gone,
\* "true" when the counter reaches STABILITY_CHECK_COUNT, "false" when the
\* sleep that follows uses up MAX_WAIT_TIME, "none" when the loop goes on
Returns(w, o) ==
    IF o.k = "gone" THEN "false"
    ELSE IF StableCount(w, o) >= STABILITY_CHECK_COUNT THEN "true"
    ELSE IF ~TimeLeft(w.elapsed + STABILITY_CHECK_INTERVAL) THEN "false"
    ELSE "none"

\* the history of the polls after this one
SameAfter(w, o) ==
    IF o.k = "size" /\ o.n # 0
    THEN IF w.obs = o THEN w.same + 1 ELSE 1
    ELSE 0

\* the poll gives cause to reset the counter: an OSError, an empty file, a
\* size other than the one the poll before it read
ResetCase(before, o) ==
    \/ o.k = "oserror"
    \/ o.k = "size" /\ o.n = 0
    \/ o.k = "size" /\ before.k = "size" /\ before.n # o.n

CalmAfter(w, o) ==
    IF o.k = "size" /\ ~ResetCase(w.obs, o) THEN w.calm + 1 ELSE 0

ShapeAfter(w, o) ==
    IF w.shape = "empty" /\ o.k = "size"
    THEN IF o.n = 0 THEN "empty" ELSE "set"
    ELSE IF w.shape = "set" /\ w.obs = o THEN "set"
    ELSE "other"

Poll(w, o) ==
    [phase |-> IF Returns(w, o) = "none" THEN "polling" ELSE "done",
     stable_count |-> IF o.k = "gone" THEN w.stable_count ELSE StableCount(w, o),
     last_size |-> IF Returns(w, o) = "true" THEN w.last_size ELSE LastSize(w, o),
     elapsed |-> IF o.k = "gone" \/ Returns(w, o) = "true" THEN w.elapsed
                 ELSE w.elapsed + STABILITY_CHECK_INTERVAL,
     ready |-> Returns(w, o) = "true",
     polls |-> w.polls + 1,
     obs |-> o,
     same |-> SameAfter(w, o),
     calm |-> CalmAfter(w, o),
     shape |-> ShapeAfter(w, o)]

\* ------------------------------------------------------------- converters
\* The pictures embedded in a source document, in document order, as a
\* converter meets them.  ok: the picture can be extracted (extract_image
\* does not raise, the relationship is in image_map, shape.image does not
\* raise, the file or URL can be read, the BinData entry exists).  src: the
\* src attribute of an <img>.  para: the <pic> of an hwpx section lies in a
\* paragraph (of its own) and is not an element beside the paragraphs.
MaxPics == 3

Srcs == {"a.png", "b.png"}

ImageConverters ==
    {"PDFConverter", "DocxConverter", "PptxConverter", "HtmlConverter", "HwpxConverter"}

\* the pictures a converter's input tells apart
PicsOf(c) ==
    [src : IF c = "HtmlConverter" THEN Srcs ELSE {"a.png"},
     ok : BOOLEAN,
     para : IF c = "HwpxConverter" THEN BOOLEAN ELSE {FALSE}]

DocsOf(c) == SeqsUpTo(PicsOf(c), MaxPics)

\* the picture the loop of job j is at
Pic(j) == j.doc[j.i]

\* An Asset named img_<k> is appended to assets and a reference to
\* assets/img_<k> to the Markdown.
Emit(j, k) == [j EXCEPT !.assets = Append(@, k), !.refs = Append(@, k)]

\* PDFConverter.convert, one image of a page: the counter advances after
\* extract_image has succeeded
PdfImage(j) ==
    IF Pic(j).ok
    THEN [Emit(j, j.image_counter + 1) EXCEPT !.image_counter = @ + 1, !.i = @ + 1]
    ELSE [j EXCEPT !.i = @ + 1]

\* DocxConverter._process_paragraph, one drawing of a run: the counter
\* advances when the embed id is in image_map
DocxDrawing(j) ==
    IF Pic(j).ok
    THEN [Emit(j, j.image_counter + 1) EXCEPT !.image_counter = @ + 1, !.i = @ + 1]
    ELSE [j EXCEPT !.i = @ + 1]

\* PptxConverter.convert, one picture shape: the counter advances before
\* _process_image is called, whether it returns an asset or None
PptxPicture(j) ==
    IF Pic(j).ok
    THEN [Emit(j, j.image_counter + 1) EXCEPT !.image_counter = @ + 1, !.i = @ + 1]
    ELSE [j EXCEPT !.image_counter = @ + 1, !.i = @ + 1]

\* HtmlConverter._convert_html, one <img> of the extraction loop: the asset
\* is named by counter + 1 and recorded in image_map under its src
HtmlImg(j) ==
    IF Pic(j).ok
    THEN [j EXCEPT !.assets = Append(@, j.image_counter + 1),
                   !.image_map[Pic(j).src] = j.image_counter + 1,
                   !.image_counter = @ + 1,
                   !.i = @ + 1]
    ELSE [j EXCEPT !.failed_images = @ \cup {Pic(j).src}, !.i = @ + 1]

\* CustomMarkdownConverter.convert_img with image_handler over the <img>
\* elements from the i-th on: a src in image_map is replaced by the asset
\* path recorded for it; any other src gives no reference to an asset (the
\* original URL or a comment)
RECURSIVE ConvertImgs(_, _, _)
ConvertImgs(doc, image_map, i) ==
    IF i > Len(doc) THEN <<>>
    ELSE IF image_map[doc[i].src] # 0
    THEN <<image_map[doc[i].src]>> \o ConvertImgs(doc, image_map, i + 1)
    ELSE ConvertImgs(doc, image_map, i + 1)

\* HwpxConverter._process_image: the counter after the call, which advances
\* when the referenced BinData entry is in image_map
HwpxProcessImage(j) ==
    IF Pic(j).ok THEN j.image_counter + 1 ELSE j.image_counter

\* HwpxConverter._process_section at a paragraph: _process_paragraph
\* extracts the picture in it
HwpxParagraph(j) ==
    IF Pic(j).ok
    THEN [Emit(j, HwpxProcessImage(j)) EXCEPT !.image_counter = HwpxProcessImage(j),
                                              !.sub = 1]
    ELSE [j EXCEPT !.sub = 1]

\* HwpxConverter._process_section at a pic element, inside a paragraph or
\* not (root.iter() visits both): _process_image again; the asset is
\* kept unless its new file name is in processed_images
HwpxPic(j) ==
    IF Pic(j).ok /\ ~InSeq(HwpxProcessImage(j), j.assets)
    THEN [Emit(j, HwpxProcessImage(j)) EXCEPT !.image_counter = HwpxProcessImage(j),
                                              !.sub = 0, !.i = @ + 1]
    ELSE [j EXCEPT !.image_counter = HwpxProcessImage(j), !.sub = 0, !.i = @ + 1]

\* ------------------------------------------------------------------ state
\* Daemon instances (one per invocation of `docs2mdd start`), their threads
\* and the process ids the operating system hands out.
Daemons == {"d1", "d2"}
Threads == {"main", "obs"}
DaemonPids == {"p1", "p2", "p3"}
\* processes that are not daemons of this program: one of the same user,
\* one of another user (signalling it raises PermissionError)
ForeignPids == {"foreign", "root"}

VARIABLES
    now,          \* filesystem clock
    srcMtime,     \* source path -> st_mtime, NoFile when the path does not exist
    srcDoc,       \* source path -> content of the document
    outDir,       \* output directory -> it exists
    mdMtime,      \* output directory -> st_mtime of its Markdown file, or NoFile
    assets,       \* output directory -> asset number -> st_mtime of img_<n>, or NoFile
    pidFile,      \* text of the PID file, "none" when it does not exist
    livePids,     \* process ids of live processes
    pc,           \* daemon -> where its process is in start/_daemonize/_run/_cleanup
    pid,          \* daemon -> os.getpid() of its process
    foreground,   \* daemon -> the foreground argument of the start call in progress
    running,      \* daemon -> Daemon._running
    handlers,     \* daemon -> _handle_signal is installed for SIGTERM and SIGINT
    exitWhy,      \* daemon -> how its last process ended
    exitCode,     \* daemon -> exit status of its last process
    sweepIdx,     \* daemon -> position of process_existing_files in SweepOrder
    observer,     \* daemon -> state of the watchdog observer thread
    queue,        \* daemon -> events the observer has not delivered yet
    pf,           \* daemon -> thread -> the _process_file call in progress
    conv,         \* history: path -> its last converter.convert call: the mtime
                  \*   of the source then, how _process_file ended, whether
                  \*   the caller logged an error for it
    sweepState,   \* history: the latest process_existing_files call: none, running, returned, raised
    sweepPrev,    \* history: sweepState of the call before it, "changed" if a source changed in between
    sweepStart,   \* history: the paths that call had to convert when it started: new ones, stale ones
    srcChanged,   \* history: a source file was created or modified since that call started
    cli,          \* the `docs2mdd stop` or `docs2mdd status` command in progress, or how the last one ended
    wait,         \* daemon -> the _wait_for_file_ready call of its observer thread, poll by poll
    lastLog,      \* daemon -> highest level of the log records of the latest on_created call
    job,          \* the Converter.convert call in progress, or the one that returned last
    signalled,    \* history: daemon -> _handle_signal has run in its process
    assets_dirname, \* config.assets_dirname of the handler
    written       \* the asset files _process_file wrote for the latest result

fsVars == <<now, srcMtime, srcDoc, outDir, mdMtime, assets>>
procVars == <<pidFile, livePids, pc, pid, foreground, running, handlers, exitWhy, exitCode>>
watchVars == <<sweepIdx, observer, queue, pf>>
histVars == <<conv, sweepState, sweepPrev, sweepStart, srcChanged>>
cmdVars == <<cli, wait, lastLog, job>>
dispatchVars == <<assets_dirname, written>>
vars == <<fsVars, procVars, watchVars, histVars, cmdVars, signalled, dispatchVars>>

IdlePF == [phase |-> "idle", file |-> NoPath, start |-> NoFile, imgs |-> 0]
IdleThreads == [t \in Threads |-> IdlePF]
NoConv == [ver |-> NoFile, end |-> "none", logged |-> FALSE]
\* no command has run yet
NoCli == [cmd |-> "none", pc |-> "off", target |-> "none", polls |-> 0,
          end |-> "none", code |-> 0, hadPidFile |-> "none"]
\* The locals of _wait_for_file_ready as it is entered, with the history of
\* its polls: how many there were, what the latest one saw, how many of the
\* latest ones in a row read the same non-zero size (same) or gave no cause
\* to reset the counter (calm), and the shape of the whole sequence: "empty"
\* (size 0 throughout), "set" (size 0, then one non-zero size throughout).
NoWait == [phase |-> "idle", stable_count |-> 0, last_size |-> -1, elapsed |-> 0,
           ready |-> FALSE, polls |-> 0, obs |-> [k |-> "none", n |-> 0],
           same |-> 0, calm |-> 0, shape |-> "empty"]

\* no converter has been called yet
NoJob == [conv |-> "none", doc |-> <<>>, pass |-> "none", i |-> 0, sub |-> 0,
          image_counter |-> 0, assets |-> <<>>, refs |-> <<>>,
          image_map |-> [s \in Srcs |-> 0], failed_images |-> {}]

\* the state before any daemon has run, with the PID file as pidText and
\* assets_dirname as dirname
InitState(pidText, dirname) ==
    /\ now = 0
    /\ srcMtime = [f \in Paths |-> NoFile]
    /\ srcDoc = [f \in Paths |-> NoDoc]
    /\ outDir = [o \in OutDirs |-> FALSE]
    /\ mdMtime = [o \in OutDirs |-> NoFile]
    /\ assets = [o \in OutDirs |-> [k \in 1..MaxImgs |-> NoFile]]
    /\ pidFile = pidText
    /\ livePids = {pidText} \cap ForeignPids
    /\ pc = [d \in Daemons |-> "off"]
    /\ pid = [d \in Daemons |-> "none"]
    /\ foreground = [d \in Daemons |-> FALSE]
    /\ running = [d \in Daemons |-> FALSE]
    /\ handlers = [d \in Daemons |-> FALSE]
    /\ exitWhy = [d \in Daemons |-> "none"]
    /\ exitCode = [d \in Daemons |-> 0]
    /\ sweepIdx = [d \in Daemons |-> 0]
    /\ observer = [d \in Daemons |-> "none"]
    /\ queue = [d \in Daemons |-> <<>>]
    /\ pf = [d \in Daemons |-> IdleThreads]
    /\ conv = [f \in Paths |-> NoConv]
    /\ sweepState = "none"
    /\ sweepPrev = "none"
    /\ sweepStart = [new |-> {}, stale |-> {}]
    /\ srcChanged = FALSE
    /\ cli = NoCli
    /\ wait = [d \in Daemons |-> NoWait]
    /\ lastLog = [d \in Daemons |-> "none"]
    /\ job = NoJob
    /\ signalled = [d \in Daemons |-> FALSE]
    /\ assets_dirname = dirname
    /\ written = {}

\* the same with the assets_dirname `docs2mdd init` writes
InitWith(pidText) == InitState(pidText, AssetsDirname)

\* ------------------------------------------------------------ environment
\* The clock advances.
Tick ==
    /\ now < MaxTime
    /\ now' = now + 1
    /\ UNCHANGED <<srcMtime, srcDoc, outDir, mdMtime, assets>>
    /\ UNCHANGED <<procVars, watchVars, histVars, cmdVars, dispatchVars, signalled>>

\* watchdog delivers a FileCreatedEvent to every observer that is running
Enqueue(ev) ==
    [d \in Daemons |-> IF observer[d] = "alive" THEN Append(queue[d], ev) ELSE queue[d]]

QueuesHaveRoom == \A d \in Daemons : observer[d] = "alive" => Len(queue[d]) < MaxQueue

\* A writer puts a new file into the source tree.
CreateFile(f, doc) ==
    /\ srcMtime[f] = NoFile
    /\ QueuesHaveRoom
    /\ srcMtime' = [srcMtime EXCEPT ![f] = now]
    /\ srcDoc' = [srcDoc EXCEPT ![f] = doc]
    /\ queue' = Enqueue([src_path |-> f, is_directory |-> FALSE])
    /\ srcChanged' = TRUE
    /\ UNCHANGED <<now, outDir, mdMtime, assets>>
    /\ UNCHANGED <<procVars, sweepIdx, observer, pf>>
    /\ UNCHANGED <<conv, sweepState, sweepPrev, sweepStart, cmdVars, dispatchVars, signalled>>

\* A directory is created in the source tree (the model keeps no record of
\* directories: the event is all the program sees of it).
CreateDir(p) ==
    /\ QueuesHaveRoom
    /\ \E d \in Daemons : observer[d] = "alive"
    /\ queue' = Enqueue([src_path |-> p, is_directory |-> TRUE])
    /\ UNCHANGED <<fsVars, procVars, sweepIdx, observer, pf, histVars, cmdVars, dispatchVars, signalled>>

\* A writer rewrites an existing source file in place (no create event).
Touch(f, doc) ==
    /\ srcMtime[f] # NoFile
    /\ srcMtime[f] < now
    /\ srcMtime' = [srcMtime EXCEPT ![f] = now]
    /\ srcDoc' = [srcDoc EXCEPT ![f] = doc]
    /\ srcChanged' = TRUE
    /\ UNCHANGED <<now, outDir, mdMtime, assets>>
    /\ UNCHANGED <<procVars, watchVars>>
    /\ UNCHANGED <<conv, sweepState, sweepPrev, sweepStart, cmdVars, dispatchVars, signalled>>

\* A process that is not a daemon of this program ends.
ForeignExit(p) ==
    /\ p \in ForeignPids \cap livePids
    /\ livePids' = livePids \ {p}
    /\ UNCHANGED <<pidFile, pc, pid, foreground, running, handlers, exitWhy, exitCode>>
    /\ UNCHANGED <<fsVars, watchVars, histVars, cmdVars, dispatchVars, signalled>>

\* ------------------------------------------------------- _process_file
\* The process of daemon d ends: its threads, its queue, its flags and its
\* handler (with the record of what its latest call logged) go.
ProcessExit(d, why, code) ==
    /\ pc' = [pc EXCEPT ![d] = "off"]
    /\ livePids' = livePids \ {pid[d]}
    /\ pid' = [pid EXCEPT ![d] = "none"]
    /\ foreground' = [foreground EXCEPT ![d] = FALSE]
    /\ running' = [running EXCEPT ![d] = FALSE]
    /\ handlers' = [handlers EXCEPT ![d] = FALSE]
    /\ exitWhy' = [exitWhy EXCEPT ![d] = why]
    /\ exitCode' = [exitCode EXCEPT ![d] = code]
    /\ sweepIdx' = [sweepIdx EXCEPT ![d] = 0]
    /\ observer' = [observer EXCEPT ![d] = "none"]
    /\ queue' = [queue EXCEPT ![d] = <<>>]
    /\ pf' = [pf EXCEPT ![d] = IdleThreads]
    /\ lastLog' = [lastLog EXCEPT ![d] = "none"]

\* an on_created whose handler caught only the errors of the output writes
OnCreatedCatchesOSError(exc) == exc = "io"

\* on_created: `except Exception` around _process_file catches every exception
\* a converter or a write raises
OnCreatedCatches(exc) == exc \in {"convert", "io"}

\* process_existing_files calls _process_file outside any try block
SweepCatches(exc) == FALSE

\* the caller of _process_file on thread t catches exc and logs an error
Caught(t, exc) ==
    /\ exc # "none"
    /\ IF t = "obs" THEN OnCreatedCatches(exc) ELSE SweepCatches(exc)

\* The _process_file call of thread t ends with exception exc ("none": it
\* returns), and control goes back to its caller: on_created on the
\* observer thread, process_existing_files (called by _run) on the main one.
PFEnd(d, t, exc) ==
    IF t = "obs"
    THEN /\ pf' = [pf EXCEPT ![d][t] = IdlePF]
         /\ observer' = IF exc # "none" /\ ~Caught(t, exc)
                        THEN [observer EXCEPT ![d] = "crashed"]
                        ELSE observer
         /\ lastLog' = IF Caught(t, exc) THEN [lastLog EXCEPT ![d] = "error"] ELSE lastLog
         /\ UNCHANGED <<livePids, pc, pid, foreground, running, handlers, exitWhy, exitCode>>
         /\ UNCHANGED <<sweepIdx, queue, sweepState>>
    ELSE IF exc = "none" \/ Caught(t, exc)
    THEN /\ pf' = [pf EXCEPT ![d][t] = IdlePF]
         /\ sweepIdx' = [sweepIdx EXCEPT ![d] = @ + 1]
         /\ UNCHANGED <<livePids, pc, pid, foreground, running, handlers, exitWhy, exitCode>>
         /\ UNCHANGED <<observer, queue, sweepState, lastLog>>
    ELSE /\ ProcessExit(d, "sweep_exception", 1)
         /\ sweepState' = "raised"

\* a _process_file that opened the Markdown file for writing before it converted
MdOpenedBeforeConvert(o) == [mdMtime EXCEPT ![o] = now]

\* The Markdown files once output_dir.mkdir and converter.convert have run:
\* nothing is written to them before the result is there.
MdAfterConvert(o) == mdMtime

\* _process_file up to converter.convert: create the output directory, run
\* the converter on the source as it is now; a corrupt document makes the
\* converter raise.
PFConvert(d, t) ==
    LET f == pf[d][t].file
        o == OutputDir(f)
        exc == IF srcDoc[f].ok THEN "none" ELSE "convert"
    IN  /\ pf[d][t].phase = "convert"
        /\ outDir' = [outDir EXCEPT ![o] = TRUE]
        /\ mdMtime' = MdAfterConvert(o)
        /\ conv' = [conv EXCEPT ![f] =
                      [ver |-> srcMtime[f],
                       end |-> IF exc = "none" THEN "running" ELSE "raised",
                       logged |-> Caught(t, exc)]]
        /\ IF exc = "none"
           THEN /\ pf' = [pf EXCEPT ![d][t] =
                            [phase |-> "write", file |-> f,
                             start |-> srcMtime[f], imgs |-> srcDoc[f].imgs]]
                /\ UNCHANGED <<livePids, pc, pid, foreground, running, handlers, exitWhy, exitCode>>
                /\ UNCHANGED <<sweepIdx, observer, queue, sweepState, lastLog>>
           ELSE PFEnd(d, t, exc)
        /\ UNCHANGED <<now, srcMtime, srcDoc, assets>>
        /\ UNCHANGED <<pidFile, sweepPrev, sweepStart, srcChanged, cli, wait, job, dispatchVars, signalled>>

\* a write of the Markdown file that keeps a file that is already there
WriteMarkdownIfAbsent(o) ==
    IF mdMtime[o] = NoFile THEN [mdMtime EXCEPT ![o] = now] ELSE mdMtime

\* md_path.write_text(result.markdown): the file is replaced and stamped
WriteMarkdown(o) == [mdMtime EXCEPT ![o] = now]

\* a write of the assets that clears the assets directory of what the result
\* does not name
WriteAssetsPruning(o, k) ==
    [assets EXCEPT ![o] = [j \in 1..MaxImgs |-> IF j <= k THEN now ELSE NoFile]]

\* asset_path.write_bytes for the first k assets of the result
WriteAssets(o, k) ==
    [assets EXCEPT ![o] = [j \in 1..MaxImgs |-> IF j <= k THEN now ELSE @[j]]]

\* _process_file from the write of the Markdown on.  mdOK: write_text
\* succeeds; k: the asset writes that succeed before an OSError, all of them
\* when k is the number of assets.  _on_converted is None.
PFWrite(d, t) ==
    LET f == pf[d][t].file
        o == OutputDir(f)
        n == pf[d][t].imgs
    IN  /\ pf[d][t].phase = "write"
        /\ \E mdOK \in BOOLEAN, k \in 0..n :
             LET exc == IF mdOK /\ k = n THEN "none" ELSE "io"
             IN  /\ ~mdOK => k = 0
                 /\ mdMtime' = IF mdOK THEN WriteMarkdown(o) ELSE mdMtime
                 /\ assets' = IF mdOK THEN WriteAssets(o, k) ELSE assets
                 /\ conv' = [conv EXCEPT ![f] =
                               [ver |-> pf[d][t].start,
                                end |-> IF exc = "none" THEN "ok" ELSE exc,
                                logged |-> Caught(t, exc)]]
                 /\ PFEnd(d, t, exc)
        /\ UNCHANGED <<now, srcMtime, srcDoc, outDir>>
        /\ UNCHANGED <<pidFile, sweepPrev, sweepStart, srcChanged, cli, wait, job, dispatchVars, signalled>>

\* --------------------------------------------------------------- on_created
\* an on_created that looked for a converter without the test of the extension
EarlyReturnNoExtCheck(ev) ==
    IF ev.is_directory THEN "directory"
    ELSE IF FindConverter(ev.src_path) = 0 THEN "no_converter"
    ELSE "none"

\* The return on_created takes before the stability wait, "none" when it
\* goes on to the wait.
EarlyReturn(ev) ==
    IF ev.is_directory THEN "directory"
    ELSE IF ~InSeq(LowerExt(ev.src_path.ext), SupportedExtensions) THEN "unsupported"
    ELSE IF FindConverter(ev.src_path) = 0 THEN "no_converter"
    ELSE "none"

\* The highest level on_created has logged at when it takes that return:
\* nothing for a directory, logger.info("new file detected") for every file,
\* then logger.debug for an unsupported extension, logger.warning when no
\* converter is found.
EarlyReturnLog(ev) ==
    IF EarlyReturn(ev) = "directory" THEN "none"
    ELSE IF EarlyReturn(ev) = "unsupported" THEN "info"
    ELSE IF EarlyReturn(ev) = "no_converter" THEN "warning"
    ELSE "info"

\* ConversionHandler.on_created for the next event of the observer's queue:
\* the early returns, the stability wait (with any of the results it can
\* return) and the start of _process_file.
OnCreated(d) ==
    LET ev == Head(queue[d])
        f == ev.src_path
    IN  /\ observer[d] = "alive"
        /\ pf[d]["obs"].phase = "idle"
        /\ queue[d] # <<>>
        /\ queue' = [queue EXCEPT ![d] = Tail(@)]
        /\ IF EarlyReturn(ev) # "none"
           THEN /\ UNCHANGED pf
                /\ lastLog' = [lastLog EXCEPT ![d] = EarlyReturnLog(ev)]
           ELSE \E ready \in WaitResults :
                  IF ready
                  THEN /\ pf' = [pf EXCEPT ![d]["obs"] =
                                   [phase |-> "convert", file |-> f,
                                    start |-> NoFile, imgs |-> 0]]
                       /\ lastLog' = [lastLog EXCEPT ![d] = "info"]
                  ELSE /\ UNCHANGED pf
                       /\ lastLog' = [lastLog EXCEPT ![d] = "error"]
        /\ UNCHANGED <<fsVars, procVars, histVars>>
        /\ UNCHANGED <<sweepIdx, observer, cli, wait, job, dispatchVars, signalled>>

\* on_created, one step at a time.  WaitBegin: the early returns and the
\* entry into _wait_for_file_ready.
WaitBegin(d) ==
    LET ev == Head(queue[d])
    IN  /\ observer[d] = "alive"
        /\ pf[d]["obs"].phase = "idle"
        /\ queue[d] # <<>>
        /\ queue' = [queue EXCEPT ![d] = Tail(@)]
        /\ IF EarlyReturn(ev) # "none"
           THEN /\ UNCHANGED <<pf, wait, job, dispatchVars, signalled>>
                /\ lastLog' = [lastLog EXCEPT ![d] = EarlyReturnLog(ev)]
           ELSE /\ pf' = [pf EXCEPT ![d]["obs"] =
                            [phase |-> "wait", file |-> ev.src_path,
                             start |-> NoFile, imgs |-> 0]]
                /\ wait' = [wait EXCEPT ![d] = [NoWait EXCEPT !.phase = "polling"]]
                /\ lastLog' = [lastLog EXCEPT ![d] = "info"]
        /\ UNCHANGED <<fsVars, procVars, histVars>>
        /\ UNCHANGED <<sweepIdx, observer, cli, job, dispatchVars, signalled>>

\* WaitPoll: one turn of the loop of _wait_for_file_ready, the file being
\* in any state a poll can find it in; when the function returns, on_created
\* goes on to _process_file or logs an error and returns.
WaitPoll(d) ==
    /\ pf[d]["obs"].phase = "wait"
    /\ \E o \in ObsSet :
         LET w == Poll(wait[d], o)
         IN  /\ wait' = [wait EXCEPT ![d] = w]
             /\ IF w.phase = "polling"
                THEN UNCHANGED <<pf, lastLog>>
                ELSE IF w.ready
                THEN /\ pf' = [pf EXCEPT ![d]["obs"].phase = "convert"]
                     /\ UNCHANGED lastLog
                ELSE /\ pf' = [pf EXCEPT ![d]["obs"] = IdlePF]
                     /\ lastLog' = [lastLog EXCEPT ![d] = "error"]
    /\ UNCHANGED <<fsVars, procVars, histVars>>
    /\ UNCHANGED <<sweepIdx, observer, queue, cli, job, dispatchVars, signalled>>

\* --------------------------------------------------- process_existing_files
\* a freshness test that asks for an output strictly newer than the source
UpToDateStrict(f) ==
    /\ mdMtime[OutputDir(f)] # NoFile
    /\ srcMtime[f] < mdMtime[OutputDir(f)]

\* md_path.exists() and file_path.stat().st_mtime <= md_path.stat().st_mtime
UpToDate(f) ==
    /\ mdMtime[OutputDir(f)] # NoFile
    /\ srcMtime[f] <= mdMtime[OutputDir(f)]

\* the next position of SweepOrder, from i on, whose path exists
RECURSIVE NextYield(_)
NextYield(i) ==
    IF i > Len(SweepOrder) THEN i
    ELSE IF srcMtime[SweepOrder[i]] # NoFile THEN i
    ELSE NextYield(i + 1)

\* process_existing_files reaches f and has a converter for it
Convertible(f) == InSeq(f, SweepOrder) /\ FindConverter(f) # 0

\* the paths process_existing_files would hand to _process_file now
Eligible == {f \in Paths : srcMtime[f] # NoFile /\ Convertible(f) /\ ~UpToDate(f)}

\* One turn of the loops of process_existing_files: the next path the glob
\* yields is skipped or handed to _process_file; after the last one the
\* call returns.
SweepStep(d) ==
    LET j == NextYield(sweepIdx[d])
        f == SweepOrder[j]
    IN  /\ pc[d] = "sweep"
        /\ pf[d]["main"].phase = "idle"
        /\ IF j > Len(SweepOrder)
           THEN /\ pc' = [pc EXCEPT ![d] = "watch_start"]
                /\ sweepIdx' = [sweepIdx EXCEPT ![d] = j]
                /\ sweepState' = "returned"
                /\ UNCHANGED pf
           ELSE IF UpToDate(f) \/ FindConverter(f) = 0
           THEN /\ sweepIdx' = [sweepIdx EXCEPT ![d] = j + 1]
                /\ UNCHANGED <<pc, pf, sweepState>>
           ELSE /\ sweepIdx' = [sweepIdx EXCEPT ![d] = j]
                /\ pf' = [pf EXCEPT ![d]["main"] =
                            [phase |-> "convert", file |-> f, start |-> NoFile, imgs |-> 0]]
                /\ UNCHANGED <<pc, sweepState>>
        /\ UNCHANGED <<fsVars, observer, queue>>
        /\ UNCHANGED <<pidFile, livePids, pid, foreground, running, handlers, exitWhy, exitCode>>
        /\ UNCHANGED <<conv, sweepPrev, sweepStart, srcChanged, cmdVars, dispatchVars, signalled>>

\* ------------------------------------------------------------- daemon.py
\* os.kill(p, 0)
Kill0(p) ==
    IF p \notin livePids THEN "ProcessLookupError"
    ELSE IF p = "root" THEN "PermissionError"
    ELSE "ok"

\* int(self.pid_file.read_text().strip())
ParsePid(text) == IF text = "garbage" THEN "ValueError" ELSE text

\* an _is_running that takes every PID file for a stale one
IsRunningAlwaysStale ==
    IF pidFile = "none" THEN [result |-> "false", unlink |-> FALSE]
    ELSE [result |-> "false", unlink |-> TRUE]

\* Daemon._is_running: its result ("true", "false", or the exception it lets
\* through) and whether it unlinks the PID file
IsRunning ==
    IF pidFile = "none"
    THEN [result |-> "false", unlink |-> FALSE]
    ELSE IF ParsePid(pidFile) = "ValueError"
    THEN [result |-> "false", unlink |-> TRUE]
    ELSE IF Kill0(ParsePid(pidFile)) = "ok"
    THEN [result |-> "true", unlink |-> FALSE]
    ELSE IF Kill0(ParsePid(pidFile)) = "ProcessLookupError"
    THEN [result |-> "false", unlink |-> TRUE]
    ELSE [result |-> Kill0(ParsePid(pidFile)), unlink |-> FALSE]

\* `docs2mdd start [-f]`: a new process p calls Daemon.start(foreground)
Launch(d, fg, p) ==
    /\ pc[d] = "off"
    /\ p \in DaemonPids \ livePids
    /\ pc' = [pc EXCEPT ![d] = "start"]
    /\ pid' = [pid EXCEPT ![d] = p]
    /\ livePids' = livePids \cup {p}
    /\ foreground' = [foreground EXCEPT ![d] = fg]
    /\ signalled' = [signalled EXCEPT ![d] = FALSE]
    /\ UNCHANGED <<pidFile, running, handlers, exitWhy, exitCode>>
    /\ UNCHANGED <<fsVars, watchVars, histVars, cmdVars, dispatchVars>>

\* Daemon.start: refuse when _is_running, else go on to _run or _daemonize
Start(d) ==
    /\ pc[d] = "start"
    /\ IF IsRunning.result = "true"
       THEN /\ ProcessExit(d, "already_running", 1)
            /\ UNCHANGED pidFile
       ELSE IF IsRunning.result = "false"
       THEN /\ pidFile' = IF IsRunning.unlink THEN "none" ELSE pidFile
            /\ pc' = [pc EXCEPT ![d] = IF foreground[d] THEN "run" ELSE "daemonize"]
            /\ foreground' = [foreground EXCEPT ![d] = FALSE]
            /\ UNCHANGED <<livePids, pid, running, handlers, exitWhy, exitCode>>
            /\ UNCHANGED <<sweepIdx, observer, queue, pf, lastLog>>
       ELSE /\ ProcessExit(d, "start_exception", 1)
            /\ UNCHANGED pidFile
    /\ UNCHANGED <<fsVars, histVars, cli, wait, job, dispatchVars, signalled>>

\* Daemon._daemonize: a fork fails and the process exits with status 1, or
\* the grandchild q goes on, writes its id to the PID file and installs the
\* signal handlers
Daemonize(d) ==
    /\ pc[d] = "daemonize"
    /\ \/ /\ ProcessExit(d, "fork_failed", 1)
          /\ UNCHANGED pidFile
       \/ \E q \in DaemonPids \ livePids :
            /\ pid' = [pid EXCEPT ![d] = q]
            /\ livePids' = (livePids \ {pid[d]}) \cup {q}
            /\ pidFile' = q
            /\ handlers' = [handlers EXCEPT ![d] = TRUE]
            /\ pc' = [pc EXCEPT ![d] = "run"]
            /\ UNCHANGED <<foreground, running, exitWhy, exitCode>>
            /\ UNCHANGED <<sweepIdx, observer, queue, pf, lastLog>>
    /\ UNCHANGED <<fsVars, histVars, cli, wait, job, dispatchVars, signalled>>

\* Daemon._run up to the call of process_existing_files
RunEnter(d) ==
    /\ pc[d] = "run"
    /\ running' = [running EXCEPT ![d] = TRUE]
    /\ pidFile' = IF pidFile = "none" THEN pid[d] ELSE pidFile
    /\ handlers' = [handlers EXCEPT ![d] = TRUE]
    /\ observer' = [observer EXCEPT ![d] = "new"]
    /\ pc' = [pc EXCEPT ![d] = "sweep"]
    /\ sweepIdx' = [sweepIdx EXCEPT ![d] = 1]
    /\ sweepState' = "running"
    /\ sweepPrev' = IF srcChanged THEN "changed" ELSE sweepState
    /\ sweepStart' = [new |-> {f \in Eligible : mdMtime[OutputDir(f)] = NoFile},
                      stale |-> {f \in Eligible : mdMtime[OutputDir(f)] # NoFile}]
    /\ srcChanged' = FALSE
    /\ UNCHANGED <<livePids, pid, foreground, exitWhy, exitCode>>
    /\ UNCHANGED <<fsVars, queue, pf, conv, cmdVars, dispatchVars, signalled>>

\* FileWatcher.start: the observer thread starts, or ensure_directories,
\* schedule or start raises
WatcherStart(d) ==
    /\ pc[d] = "watch_start"
    /\ \/ /\ observer' = [observer EXCEPT ![d] = "alive"]
          /\ pc' = [pc EXCEPT ![d] = "loop"]
          /\ UNCHANGED <<livePids, pid, foreground, running, handlers, exitWhy, exitCode>>
          /\ UNCHANGED <<sweepIdx, queue, pf, lastLog>>
       \/ ProcessExit(d, "watcher_start_exception", 1)
    /\ UNCHANGED <<fsVars, pidFile, histVars, cli, wait, job, dispatchVars, signalled>>

\* FileWatcher.is_alive
IsAlive(d) == observer[d] \in {"alive", "stopping"}

\* The run loop ends: its condition is false, or time.sleep raises (a
\* negative poll_interval) and `except Exception` logs it.
LoopExit(d) ==
    /\ pc[d] = "loop"
    /\ \E raised \in BOOLEAN : raised \/ ~running[d] \/ ~IsAlive(d)
    /\ pc' = [pc EXCEPT ![d] = "cleanup"]
    /\ UNCHANGED <<pidFile, livePids, pid, foreground, running, handlers, exitWhy, exitCode>>
    /\ UNCHANGED <<fsVars, watchVars, histVars, cmdVars, dispatchVars, signalled>>

\* _cleanup: watcher.stop() calls observer.stop()
CleanupStop(d) ==
    /\ pc[d] = "cleanup"
    /\ observer' = [observer EXCEPT ![d] = IF @ = "alive" THEN "stopping" ELSE @]
    /\ pc' = [pc EXCEPT ![d] = "join"]
    /\ UNCHANGED <<pidFile, livePids, pid, foreground, running, handlers, exitWhy, exitCode>>
    /\ UNCHANGED <<fsVars, sweepIdx, queue, pf, histVars, cmdVars, dispatchVars, signalled>>

\* a watcher.stop() whose join does not wait for the handler call in progress
CleanupJoinNoWait(d) ==
    /\ pc[d] = "join"
    /\ observer' = [observer EXCEPT ![d] = "stopped"]
    /\ queue' = [queue EXCEPT ![d] = <<>>]
    /\ pc' = [pc EXCEPT ![d] = "unlink"]
    /\ UNCHANGED <<pidFile, livePids, pid, foreground, running, handlers, exitWhy, exitCode>>
    /\ UNCHANGED <<fsVars, sweepIdx, pf, histVars, cmdVars, dispatchVars, signalled>>

\* _cleanup: observer.join() returns once the observer thread has ended,
\* which it does after the handler call it is in
CleanupJoin(d) ==
    /\ pc[d] = "join"
    /\ pf[d]["obs"].phase = "idle"
    /\ observer' = [observer EXCEPT ![d] = "stopped"]
    /\ queue' = [queue EXCEPT ![d] = <<>>]
    /\ pc' = [pc EXCEPT ![d] = "unlink"]
    /\ UNCHANGED <<pidFile, livePids, pid, foreground, running, handlers, exitWhy, exitCode>>
    /\ UNCHANGED <<fsVars, sweepIdx, pf, histVars, cmdVars, dispatchVars, signalled>>

\* _cleanup: the PID file is unlinked if it exists; _run returns
CleanupPid(d) ==
    /\ pc[d] = "unlink"
    /\ pidFile' = "none"
    /\ ProcessExit(d, "run_ended", 0)
    /\ signalled' = [signalled EXCEPT ![d] = FALSE]
    /\ UNCHANGED <<fsVars, histVars, cli, wait, job, dispatchVars>>

\* SIGTERM or SIGINT reaches the process of daemon d: _handle_signal if it
\* is installed, the default action (the process ends) if not
Signal(d) ==
    /\ pc[d] # "off"
    /\ IF handlers[d]
       THEN /\ running' = [running EXCEPT ![d] = FALSE]
            /\ signalled' = [signalled EXCEPT ![d] = TRUE]
            /\ UNCHANGED <<livePids, pc, pid, foreground, handlers, exitWhy, exitCode>>
            /\ UNCHANGED <<sweepIdx, observer, queue, pf, lastLog>>
       ELSE /\ ProcessExit(d, "signal", 143)
            /\ UNCHANGED signalled
    /\ UNCHANGED <<fsVars, pidFile, histVars, cli, wait, job, dispatchVars>>

\* ------------------------------------------------- Daemon.stop, Daemon.status
\* iterations of the wait loop of stop(): `for _ in range(10)`
STOP_WAIT_POLLS == 10

\* what a signal can change in a process
SignalVars == <<livePids, pc, pid, foreground, running, handlers, exitWhy, exitCode,
                sweepIdx, observer, queue, pf, lastLog, signalled>>

\* os.kill(p, sig) on a live process p that the caller may signal.  A daemon
\* runs _handle_signal on SIGTERM if it is installed and ends otherwise; a
\* process that is no daemon ends, or handles SIGTERM and lives on.
Kill(p, sig) ==
    IF \E d \in Daemons : pid[d] = p
    THEN LET d == CHOOSE e \in Daemons : pid[e] = p
         IN  IF sig = "SIGTERM" /\ handlers[d]
             THEN /\ running' = [running EXCEPT ![d] = FALSE]
                  /\ signalled' = [signalled EXCEPT ![d] = TRUE]
                  /\ UNCHANGED <<livePids, pc, pid, foreground, handlers, exitWhy, exitCode>>
                  /\ UNCHANGED <<sweepIdx, observer, queue, pf, lastLog>>
             ELSE /\ ProcessExit(d, IF sig = "SIGTERM" THEN "signal" ELSE "killed",
                                    IF sig = "SIGTERM" THEN 143 ELSE 137)
                  /\ signalled' = [signalled EXCEPT ![d] = FALSE]
    ELSE /\ livePids' \in IF sig = "SIGTERM" THEN {livePids, livePids \ {p}}
                          ELSE {livePids \ {p}}
         /\ UNCHANGED <<pc, pid, foreground, running, handlers, exitWhy, exitCode>>
         /\ UNCHANGED <<sweepIdx, observer, queue, pf, lastLog, signalled>>

\* the command ends: how, and with which exit status
CliEnd(cmd, how, code, had) ==
    [cmd |-> cmd, pc |-> "off", target |-> "none", polls |-> 0,
     end |-> how, code |-> code, hadPidFile |-> had]

\* `docs2mdd stop`, Daemon.stop up to the wait loop: return if there is no
\* PID file; read the pid (outside the try block); send SIGTERM.  A
\* ProcessLookupError is caught, a PermissionError is not; `finally` unlinks
\* the PID file in both cases.
StopBegin ==
    /\ cli.pc = "off"
    /\ IF pidFile = "none"
       THEN /\ cli' = CliEnd("stop", "no_pid_file", 0, pidFile)
            /\ UNCHANGED <<pidFile, SignalVars>>
       ELSE IF ParsePid(pidFile) = "ValueError"
       THEN /\ cli' = CliEnd("stop", "ValueError", 1, pidFile)
            /\ UNCHANGED <<pidFile, SignalVars>>
       ELSE IF Kill0(ParsePid(pidFile)) = "ProcessLookupError"
       THEN /\ cli' = CliEnd("stop", "already_gone", 0, pidFile)
            /\ pidFile' = "none"
            /\ UNCHANGED SignalVars
       ELSE IF Kill0(ParsePid(pidFile)) = "PermissionError"
       THEN /\ cli' = CliEnd("stop", "PermissionError", 1, pidFile)
            /\ pidFile' = "none"
            /\ UNCHANGED SignalVars
       ELSE /\ Kill(ParsePid(pidFile), "SIGTERM")
            /\ cli' = [cmd |-> "stop", pc |-> "wait", target |-> ParsePid(pidFile),
                       polls |-> 0, end |-> "none", code |-> 0, hadPidFile |-> pidFile]
            /\ UNCHANGED pidFile
    /\ UNCHANGED <<fsVars, histVars, wait, job, dispatchVars>>

\* a wait loop that gives up after the first probe that finds the process
AfterProbeImpatient(polls) == "kill"

\* where stop() goes after a probe that found the process alive, polls being
\* the probes made before it: round the loop again, or to its else clause
\* after the last of the STOP_WAIT_POLLS iterations
AfterProbe(polls) == IF polls + 1 < STOP_WAIT_POLLS THEN "wait" ELSE "kill"

\* One iteration of the wait loop of stop(): sleep, then os.kill(pid, 0).
\* The loop is left when the process is gone (then `finally` unlinks the PID
\* file) or after the last iteration.
StopPoll ==
    /\ cli.pc = "wait"
    /\ IF Kill0(cli.target) = "ProcessLookupError"
       THEN /\ cli' = CliEnd("stop", "stopped", 0, cli.hadPidFile)
            /\ pidFile' = "none"
       ELSE /\ cli' = [cli EXCEPT !.polls = @ + 1,
                                  !.pc = AfterProbe(cli.polls)]
            /\ UNCHANGED pidFile
    /\ UNCHANGED <<fsVars, histVars, wait, job, dispatchVars, SignalVars>>

\* The else clause of the wait loop: SIGKILL; a ProcessLookupError is caught
\* by the outer try; `finally` unlinks the PID file.
StopKill ==
    /\ cli.pc = "kill"
    /\ IF Kill0(cli.target) = "ProcessLookupError"
       THEN /\ cli' = CliEnd("stop", "already_gone", 0, cli.hadPidFile)
            /\ UNCHANGED SignalVars
       ELSE /\ cli' = CliEnd("stop", "killed", 0, cli.hadPidFile)
            /\ Kill(cli.target, "SIGKILL")
    /\ pidFile' = "none"
    /\ UNCHANGED <<fsVars, histVars, wait, job, dispatchVars>>

\* `docs2mdd status`: Daemon.status and the exit status main.status gives it
StatusCode(result) == IF result = "true" THEN 0 ELSE 1

Status ==
    /\ cli.pc = "off"
    /\ pidFile' = IF IsRunning.unlink THEN "none" ELSE pidFile
    /\ cli' = CliEnd("status",
                     IF IsRunning.result = "true" THEN "running"
                     ELSE IF IsRunning.result = "false" THEN "not_running"
                     ELSE IsRunning.result,
                     StatusCode(IsRunning.result), pidFile)
    /\ UNCHANGED <<fsVars, histVars, wait, job, dispatchVars, SignalVars>>

\* ---------------------------------------------------------- specifications
\* the daemon instances that run
RunDaemons == {"d1"}

\* the steps of a daemon from _run on, and of its observer thread
RunStep(d) ==
    \/ RunEnter(d)
    \/ SweepStep(d)
    \/ WatcherStart(d)
    \/ LoopExit(d)
    \/ CleanupStop(d)
    \/ CleanupJoin(d)
    \/ CleanupPid(d)
    \/ OnCreated(d)
    \/ \E t \in Threads : PFConvert(d, t)
    \/ \E t \in Threads : PFWrite(d, t)

\* The process id a new process gets when the operating system does not
\* reuse the one a left-over PID file names.
FreshPid == IF pidFile = "p1" THEN "p2" ELSE "p1"

Corrupt == [ok |-> FALSE, imgs |-> 0]
Plain == [ok |-> TRUE, imgs |-> 0]
Illustrated == [ok |-> TRUE, imgs |-> MaxImgs]

\* Spec: the watcher at work on two source files that share a stem.  One
\* daemon, started in the foreground over and over; writers create and
\* rewrite the files as the clock advances.
Init == InitWith("none")

Next ==
    \/ Tick
    \/ \E f \in WatchFiles, doc \in {Corrupt, Plain} : CreateFile(f, doc)
    \/ \E f \in WatchFiles, doc \in {Corrupt, Plain} : Touch(f, doc)
    \/ \E d \in RunDaemons :
         \/ Launch(d, TRUE, FreshPid)
         \/ Start(d)
         \/ RunStep(d)

Spec == Init /\ [][Next]_vars

\* SpecAssets: the watcher at work on one source file with embedded images.
AssetFiles == {ReportPdf}

NextAssets ==
    \/ Tick
    \/ \E f \in AssetFiles, doc \in {Corrupt, Plain, Illustrated} : CreateFile(f, doc)
    \/ \E f \in AssetFiles, doc \in {Corrupt, Plain, Illustrated} : Touch(f, doc)
    \/ \E d \in RunDaemons :
         \/ Launch(d, TRUE, FreshPid)
         \/ Start(d)
         \/ RunStep(d)

SpecAssets == Init /\ [][NextAssets]_vars

\* SpecDaemon: the life of the daemon process.  Either mode of start, any
\* process id, signals, a PID file left by others, foreign processes that
\* end; one source file, the clock at rest.
DaemonFiles == {ReportPdf}

InitDaemon == \E pidText \in {"none", "garbage"} \cup ForeignPids : InitWith(pidText)

NextDaemon ==
    \/ \E f \in DaemonFiles, doc \in {Corrupt, Plain} : CreateFile(f, doc)
    \/ \E p \in ForeignPids : ForeignExit(p)
    \/ \E d \in RunDaemons :
         \/ \E fg \in BOOLEAN, p \in DaemonPids : Launch(d, fg, p)
         \/ Start(d)
         \/ Daemonize(d)
         \/ Signal(d)
         \/ RunStep(d)

SpecDaemon == InitDaemon /\ [][NextDaemon]_vars

\* ------------------------------------------------------- Converter.convert
JobUnchanged == UNCHANGED <<fsVars, procVars, watchVars, histVars, cli, wait, lastLog, signalled>>

\* a step of the converter writes no file
ConverterStep == JobUnchanged /\ UNCHANGED dispatchVars

\* convert(file_path) is called on a document with the pictures doc
ConvertCall(c, doc) ==
    /\ job.pass \in {"none", "done"}
    /\ job' = [NoJob EXCEPT !.conv = c, !.doc = doc, !.pass = "run", !.i = 1]
    /\ ConverterStep

\* the loop of the converter c is at a picture
AtPic(c) == job.conv = c /\ job.pass = "run" /\ job.i <= Len(job.doc)

PdfStep ==
    /\ AtPic("PDFConverter")
    /\ job' = PdfImage(job)
    /\ ConverterStep

DocxStep ==
    /\ AtPic("DocxConverter")
    /\ job' = DocxDrawing(job)
    /\ ConverterStep

PptxStep ==
    /\ AtPic("PptxConverter")
    /\ job' = PptxPicture(job)
    /\ ConverterStep

HtmlExtract ==
    /\ AtPic("HtmlConverter")
    /\ job' = HtmlImg(job)
    /\ ConverterStep

\* converter.convert(str(content)) after the extraction loop
HtmlRender ==
    /\ job.conv = "HtmlConverter"
    /\ job.pass = "run"
    /\ job.i > Len(job.doc)
    /\ job' = [job EXCEPT !.refs = ConvertImgs(job.doc, job.image_map, 1),
                          !.pass = "rendered"]
    /\ ConverterStep

HwpxParagraphStep ==
    /\ AtPic("HwpxConverter")
    /\ Pic(job).para
    /\ job.sub = 0
    /\ job' = HwpxParagraph(job)
    /\ ConverterStep

HwpxPicStep ==
    /\ AtPic("HwpxConverter")
    /\ ~Pic(job).para \/ job.sub = 1
    /\ job' = HwpxPic(job)
    /\ ConverterStep

\* return ConversionResult(markdown, assets)
ConvertReturn ==
    /\ \/ job.pass = "rendered"
       \/ job.pass = "run" /\ job.conv # "HtmlConverter" /\ job.i > Len(job.doc)
    /\ job' = [job EXCEPT !.pass = "done"]
    /\ ConverterStep

\* SpecConvert: every converter on every document of up to MaxPics pictures
NextConvert ==
    \/ \E c \in ImageConverters : \E doc \in DocsOf(c) : ConvertCall(c, doc)
    \/ PdfStep
    \/ DocxStep
    \/ PptxStep
    \/ HtmlExtract
    \/ HtmlRender
    \/ HwpxParagraphStep
    \/ HwpxPicStep
    \/ ConvertReturn

SpecConvert == Init /\ [][NextConvert]_vars

\* values of config.assets_dirname: the default and another one
AssetsDirnames == {AssetsDirname, "images"}

\* The directory part of the image references a converter puts into its
\* Markdown, as path components: "./assets/" and, for pptx, "assets/".
RefPrefix(c) == IF c = "PptxConverter" THEN <<"assets">> ELSE <<".", "assets">>

IsName(x) == x # "."

\* a relative path resolved against the directory of the Markdown file
Resolve(p) == SelectSeq(p, IsName)

\* the files the image references of the Markdown of job j name, relative
\* to the directory of the Markdown file
RefTargets(j) ==
    {[dir |-> Resolve(RefPrefix(j.conv)), name |-> j.refs[i]] : i \in 1..Len(j.refs)}

\* the files assets_dir / asset.filename for the assets of job j, relative
\* to output_dir, which is the directory of the Markdown file
AssetPaths(dirname, j) ==
    {[dir |-> <<dirname>>, name |-> j.assets[i]] : i \in 1..Len(j.assets)}

\* _process_file after converter.convert has returned: every asset of the
\* result is written under output_dir / config.assets_dirname
DispatchAssets ==
    /\ job.pass = "done"
    /\ written' = AssetPaths(assets_dirname, job)
    /\ job' = [job EXCEPT !.pass = "written"]
    /\ JobUnchanged
    /\ UNCHANGED assets_dirname

\* SpecRefs: one _process_file, configured with either assets_dirname, that
\* calls any converter on any document of up to MaxPics pictures
InitRefs == \E dirname \in AssetsDirnames : InitState("none", dirname)

\* _process_file calls converter.convert once
DispatchConvert(c, doc) == job.pass = "none" /\ ConvertCall(c, doc)

NextRefs ==
    \/ \E c \in ImageConverters : \E doc \in DocsOf(c) : DispatchConvert(c, doc)
    \/ PdfStep
    \/ DocxStep
    \/ PptxStep
    \/ HtmlExtract
    \/ HtmlRender
    \/ HwpxParagraphStep
    \/ HwpxPicStep
    \/ ConvertReturn
    \/ DispatchAssets

SpecRefs == InitRefs /\ [][NextRefs]_vars

\* SpecWait: the stability wait poll by poll, on the event of one file that
\* is created while a foreground daemon watches.
WaitFiles == {ReportPdf}

NextWait ==
    \/ \E f \in WaitFiles, doc \in {Corrupt, Plain} : CreateFile(f, doc)
    \/ \E d \in RunDaemons :
         \/ Launch(d, TRUE, FreshPid)
         \/ Start(d)
         \/ RunEnter(d)
         \/ SweepStep(d)
         \/ WatcherStart(d)
         \/ WaitBegin(d)
         \/ WaitPoll(d)
         \/ \E t \in Threads : PFConvert(d, t)
         \/ \E t \in Threads : PFWrite(d, t)

SpecWait == Init /\ [][NextWait]_vars

\* SpecEvents: create events of every kind: a convertible file, a file with
\* an upper-case extension, one with an unsupported extension, one whose
\* extension is configured but has no converter, a directory.
EventFiles == {ReportPdf, ScanPDF, MemoTxt, DraftHwpx}

NextEvents ==
    \/ \E f \in EventFiles : CreateFile(f, Plain)
    \/ CreateDir(ScansDir)
    \/ \E d \in RunDaemons :
         \/ Launch(d, TRUE, FreshPid)
         \/ Start(d)
         \/ RunStep(d)

SpecEvents == Init /\ [][NextEvents]_vars

\* SpecStop: the stop and status commands, run against any PID file and
\* against a daemon at any point of its life; no source files.
NextStop ==
    \/ \E p \in ForeignPids : ForeignExit(p)
    \/ \E d \in RunDaemons :
         \/ \E fg \in BOOLEAN, p \in DaemonPids : Launch(d, fg, p)
         \/ Start(d)
         \/ Daemonize(d)
         \/ RunEnter(d)
         \/ SweepStep(d)
         \/ WatcherStart(d)
         \/ LoopExit(d)
         \/ CleanupStop(d)
         \/ CleanupJoin(d)
         \/ CleanupPid(d)
    \/ StopBegin
    \/ StopPoll
    \/ StopKill
    \/ Status

SpecStop == InitDaemon /\ [][NextStop]_vars

\* SpecTwo: two invocations of `docs2mdd start` with the same configuration,
\* in either mode and in any interleaving, over an empty source tree;
\* signals end the daemons.
NextTwo ==
    \/ \E d \in Daemons :
         \/ \E fg \in BOOLEAN, p \in DaemonPids : Launch(d, fg, p)
         \/ Start(d)
         \/ Daemonize(d)
         \/ Signal(d)
         \/ RunEnter(d)
         \/ SweepStep(d)
         \/ WatcherStart(d)
         \/ LoopExit(d)
         \/ CleanupStop(d)
         \/ CleanupJoin(d)
         \/ CleanupPid(d)

SpecTwo == Init /\ [][NextTwo]_vars
\* SpecRace: the conversions of two daemons that were started in the
\* foreground with the same configuration, over one source file.
RaceFiles == {ReportPdf}

\* the process id of the start command of d
RacePid(d) == IF d = "d1" THEN "p1" ELSE "p2"

NextRace ==
    \/ \E f \in RaceFiles : CreateFile(f, Plain)
    \/ \E d \in Daemons :
         \/ Launch(d, TRUE, RacePid(d))
         \/ Start(d)
         \/ RunEnter(d)
         \/ SweepStep(d)
         \/ WatcherStart(d)
         \/ OnCreated(d)
         \/ \E t \in Threads : PFConvert(d, t)
         \/ \E t \in Threads : PFWrite(d, t)

SpecRace == Init /\ [][NextRace]_vars

\* ------------------------------------------------------------------ claims
\* the latest call of process_existing_files is over and no source has been
\* created or modified since it began
SweepSettled == sweepState \in {"returned", "raised"} /\ ~srcChanged

\* what that call had to convert when it began
SweepEligible == sweepStart.new \cup sweepStart.stale

\* f, in its present version, has been converted with success
Converted(f) == conv[f].ver = srcMtime[f] /\ conv[f].end = "ok"

\* daemon d's thread t calls converter.convert in this step
ConvertStep(d, t) == pf[d][t].phase = "convert" /\ pf'[d][t].phase # "convert"

\* that call raises: _process_file is left at once
ConvertRaises(d, t) == pf[d][t].phase = "convert" /\ pf'[d][t].phase = "idle"

\* C1: when a backlog sweep finds several files to convert and the converter
\* raises for exactly one of them (no write fails), the sweep returns
\* normally, every other file is converted and the failure is logged.
C1_SweepErrorIsolation ==
    ( /\ SweepSettled
      /\ Cardinality(SweepEligible) >= 2
      /\ Cardinality({f \in SweepEligible : ~srcDoc[f].ok}) = 1
      /\ \A f \in Paths : conv[f].end # "io" )
    => /\ sweepState = "returned"
       /\ \A f \in SweepEligible : srcDoc[f].ok => Converted(f)
       /\ \A f \in SweepEligible : ~srcDoc[f].ok => conv[f].logged

\* C2: no exception of _process_file leaves on_created, so the observer
\* thread never dies of one and goes on handling later events.
C2_EventErrorIsolation == \A d \in Daemons : observer[d] # "crashed"

\* C2 witness: a conversion has failed inside on_created and been logged,
\* and the same observer thread is converting another file
C2_Witness ==
    \E d \in Daemons, f \in Paths :
        /\ conv[f].logged
        /\ conv[f].end \in {"raised", "io"}
        /\ observer[d] = "alive"
        /\ pf[d]["obs"].phase # "idle"
        /\ pf[d]["obs"].file # f

\* C3: converter.convert is never called for a version of a source file
\* (path and modification time) that it has been called for before.
C3_AtMostOneAttempt ==
    [][\A d \in Daemons, t \in Threads :
         ConvertStep(d, t) =>
             conv[pf[d][t].file].ver # srcMtime[pf[d][t].file]]_vars

\* a step of a call of process_existing_files that follows another call,
\* ended as the set says, with no source created or modified since that
\* earlier call began
SecondSweep(ends) ==
    /\ sweepState = "running"
    /\ sweepPrev \in ends
    /\ ~srcChanged

\* such a step calls no converter and leaves every Markdown file as it was
SweepIdle ==
    /\ \A d \in Daemons, t \in Threads : ~ConvertStep(d, t)
    /\ mdMtime' = mdMtime

C5_StaleReconverted ==
    SweepSettled =>
        \A f \in sweepStart.stale :
            ( /\ srcDoc[f].ok
              /\ ~(conv[f].ver = srcMtime[f] /\ conv[f].end = "io") )
            => Converted(f) /\ UpToDate(f)

\* C6: whenever the latest conversion of a source has succeeded, its Markdown
\* file exists and is at least as new as the source was when that conversion
\* started.
C6_Freshness ==
    \A f \in Paths :
        conv[f].end = "ok" =>
            /\ mdMtime[OutputDir(f)] # NoFile
            /\ mdMtime[OutputDir(f)] >= conv[f].ver

\* C6 witness: a conversion has succeeded and its Markdown file was written
\* at a later clock value than the one the source was last modified at
C6_Witness ==
    \E f \in Paths :
        /\ conv[f].end = "ok"
        /\ conv[f].ver = srcMtime[f]
        /\ mdMtime[OutputDir(f)] > conv[f].ver

\* C7: a conversion that succeeds never writes over the output of another
\* source whose conversion has succeeded: no two sources share a Markdown
\* path or an asset directory.
C7_DisjointOutputUnits ==
    [][\A d \in Daemons, t \in Threads :
         ( /\ pf[d][t].phase = "write"
           /\ conv'[pf[d][t].file].end = "ok" )
         => \A g \in Paths \ {pf[d][t].file} :
                conv[g].end = "ok" =>
                    /\ MdPath(g) # MdPath(pf[d][t].file)
                    /\ AssetsDir(g) # AssetsDir(pf[d][t].file)]_vars

\* C8 as stated: when converter.convert raises, no Markdown file and no asset
\* file exists in the source's output location once _process_file has ended.
C8_NoOutputAfterFailure ==
    [][\A d \in Daemons, t \in Threads :
         ConvertRaises(d, t) =>
             /\ mdMtime'[OutputDir(pf[d][t].file)] = NoFile
             /\ \A k \in 1..MaxImgs :
                    assets'[OutputDir(pf[d][t].file)][k] = NoFile]_vars

\* C8 amended: when converter.convert raises, _process_file creates and
\* modifies no Markdown file and no asset file; what an earlier conversion
\* left in the output location stays as it was.
C8_FailureWritesNothing ==
    [][\A d \in Daemons, t \in Threads :
         ConvertRaises(d, t) => mdMtime' = mdMtime /\ assets' = assets]_vars

\* C8 witness: the converter has raised for a source whose output location
\* holds the Markdown file and an image of an earlier conversion
C8_Witness ==
    \E f \in Paths :
        /\ conv[f].end = "raised"
        /\ conv[f].ver = srcMtime[f]
        /\ conv[f].ver > mdMtime[OutputDir(f)]
        /\ mdMtime[OutputDir(f)] # NoFile
        /\ assets[OutputDir(f)][1] # NoFile

\* the PID file names a live process
PidFileLive == ParsePid(pidFile) \in livePids

\* C9: a call of start() made while the PID file names a live process ends
\* the calling process with a nonzero status, leaves the PID file as it is,
\* and neither begins a backlog sweep nor starts a watcher.
C9_DoubleStartRefused ==
    [][\A d \in Daemons :
         (pc[d] = "start" /\ pc'[d] # "start" /\ PidFileLive) =>
             /\ pc'[d] = "off"
             /\ exitCode'[d] # 0
             /\ pidFile' = pidFile
             /\ sweepState' = sweepState
             /\ observer'[d] = "none"]_vars

\* C9 witness: a start() has been refused because the PID file names a
\* process that is alive
C9_Witness ==
    \E d \in Daemons :
        /\ pc[d] = "off"
        /\ exitWhy[d] = "already_running"
        /\ exitCode[d] = 1
        /\ PidFileLive

\* C10: a daemon process whose PID is in the PID file, past start() and the
\* forks, never ends without the PID file being removed.
C10_PidFileRemovedOnExit ==
    [][\A d \in Daemons :
         ( /\ pc[d] \notin {"off", "start", "daemonize"}
           /\ pidFile = pid[d]
           /\ pc'[d] = "off" )
         => pidFile' = "none"]_vars

\* the command named cmd ends in this step
CommandEnds(cmd) == cli' # cli /\ cli'.cmd = cmd /\ cli'.pc = "off"

\* C11: whenever stop() is called with a PID file in place, whatever it
\* holds and whatever the state of the process it names, the PID file is
\* gone when stop() ends, by return or by exception.
C11_StopRemovesPidFile ==
    [][(CommandEnds("stop") /\ cli'.hadPidFile # "none") => pidFile' = "none"]_vars

\* C12: status() ends with exit status 0 exactly when the PID file names a
\* live process; in every other case it ends with a nonzero status and no
\* PID file is left.
C12_StatusReportsLiveness ==
    [][CommandEnds("status") =>
         /\ PidFileLive => cli'.code = 0
         /\ ~PidFileLive => cli'.code # 0 /\ pidFile' = "none"]_vars

\* the observer thread of daemon d makes a call of on_created in this step
HandlerCall(d) ==
    /\ observer[d] = "alive"
    /\ pc'[d] = pc[d]
    /\ queue[d] # <<>>
    /\ queue'[d] = Tail(queue[d])

\* the file of that call
Arrived(d) == Head(queue[d]).src_path

\* the call starts no stability wait and no conversion and changes nothing
\* under the destination root
Ignored(d) ==
    /\ pf' = pf
    /\ wait' = wait
    /\ conv' = conv
    /\ outDir' = outDir /\ mdMtime' = mdMtime /\ assets' = assets
    /\ lastLog'[d] # "error"

\* the call is for a file whose lower-cased extension is not configured
UnsupportedCall(d) ==
    /\ HandlerCall(d)
    /\ ~Head(queue[d]).is_directory
    /\ ~InSeq(LowerExt(Arrived(d).ext), SupportedExtensions)

\* C15 as stated: a create event for a file whose lower-cased extension is
\* not in supported_extensions starts no wait and no conversion, changes
\* nothing under the destination root and logs nothing above debug level.
C15_UnsupportedIsSilent ==
    [][\A d \in Daemons :
         UnsupportedCall(d) => Ignored(d) /\ lastLog'[d] \in {"none", "debug"}]_vars

\* C15 amended: such an event starts no wait and no conversion, changes
\* nothing under the destination root and logs nothing above info level
\* (the "new file detected" record on_created emits for every file).
C15_UnsupportedIsNoOp ==
    [][\A d \in Daemons :
         UnsupportedCall(d) => Ignored(d) /\ lastLog'[d] \in {"none", "debug", "info"}]_vars

\* C15 witness: the only source file there is has an unsupported extension
\* and the handler has dealt with its event
C15_Witness ==
    \E d \in Daemons :
        /\ observer[d] = "alive"
        /\ queue[d] = <<>>
        /\ lastLog[d] = "info"
        /\ srcMtime[MemoTxt] # NoFile
        /\ \A f \in Paths \ {MemoTxt} : srcMtime[f] = NoFile

\* C16: a create event for a file whose extension no registered converter
\* claims, configured or not, is ignored (no wait, no conversion, no output)
\* and nothing is logged for it at warning level or above (the claim allows
\* debug records only).
C16_UnclaimedIsSilent ==
    [][\A d \in Daemons :
         ( /\ HandlerCall(d)
           /\ ~Head(queue[d]).is_directory
           /\ FindConverter(Arrived(d)) = 0 )
         => Ignored(d) /\ lastLog'[d] \notin {"warning", "error"}]_vars

\* ------------------------------------------------ the stability wait, claims
\* the polls that fit into MAX_WAIT_TIME
MaxPolls == MAX_WAIT_TIME \div STABILITY_CHECK_INTERVAL

\* this step is one poll of the wait of d's observer thread
PollStep(d) ==
    /\ wait[d].phase = "polling"
    /\ wait'[d].polls = wait[d].polls + 1

\* the wait of d has returned
Returned(d) == wait[d].phase = "done"

\* C13: the stability wait ends after at most MAX_WAIT_TIME /
\* STABILITY_CHECK_INTERVAL = 60 polls, and it returns False when no three
\* polls in a row had read the same non-zero size by then.
C13_WaitTerminates ==
    \A d \in Daemons :
        /\ wait[d].polls <= MaxPolls
        /\ wait[d].polls = MaxPolls => Returned(d)
        /\ (Returned(d) /\ wait[d].same < STABILITY_CHECK_COUNT) => ~wait[d].ready

\* a wait that used all its polls and returned False
C13_Witness ==
    \E d \in Daemons :
        /\ Returned(d)
        /\ wait[d].polls = MaxPolls
        /\ ~wait[d].ready
        /\ pf[d]["obs"].phase = "idle"

\* the polls of d's wait read size 0 and then one non-zero size, never
\* anything else: the file was written in one step
SetOnce(d) == wait[d].shape = "set"

\* the number of the first poll that read the final size
FirstFinal(d) == wait[d].polls - wait[d].same + 1

\* the wait returned True, and no later than STABILITY_CHECK_COUNT polls
\* after the first poll that read the final size
ReadyInTime(d) ==
    /\ Returned(d) => wait[d].ready
    /\ wait[d].polls - FirstFinal(d) >= STABILITY_CHECK_COUNT
         => Returned(d) /\ wait[d].ready

\* C14 as stated: for a file whose size is set once to a non-zero value and
\* never changes, the wait returns True at most STABILITY_CHECK_COUNT poll
\* intervals after the first poll that reads the final size.
C14_SetOnceIsReady ==
    \A d \in Daemons : SetOnce(d) => ReadyInTime(d)

\* C14, amended: the same, for a file whose final size is first read by one
\* of the first MaxPolls - STABILITY_CHECK_COUNT = 57 polls; a later first
\* reading leaves too few polls and the wait returns False.
C14_SetOnceIsReadyBeforeTimeout ==
    \A d \in Daemons :
        (SetOnce(d) /\ FirstFinal(d) <= MaxPolls - STABILITY_CHECK_COUNT)
            => ReadyInTime(d)

\* the latest success there is: the final size is first read by poll 57,
\* after 56 polls of an empty file
C14_Witness ==
    \E d \in Daemons :
        /\ SetOnce(d)
        /\ Returned(d)
        /\ wait[d].ready
        /\ wait[d].polls = MaxPolls
        /\ FirstFinal(d) = MaxPolls - STABILITY_CHECK_COUNT

\* C18 as stated: the wait returns True as soon as STABILITY_CHECK_COUNT = 3
\* polls in a row have read the same non-zero size, and never earlier.
C18_TrueAtThreeEqualPolls ==
    \A d \in Daemons :
        wait[d].ready <=> wait[d].same >= STABILITY_CHECK_COUNT

\* C18, amended: the counter counts the polls that read the size the poll
\* before them read, so the wait returns True at the fourth poll in a row
\* that reads the same non-zero size at the latest, and never before three
\* polls in a row have read the same non-zero size.
C18_TrueAtFourEqualPolls ==
    \A d \in Daemons :
        /\ wait[d].same > STABILITY_CHECK_COUNT => Returned(d) /\ wait[d].ready
        /\ wait[d].ready => wait[d].same >= STABILITY_CHECK_COUNT

\* four polls, all reading the same non-zero size, and True at the fourth
C18_Witness ==
    \E d \in Daemons :
        /\ wait[d].ready
        /\ wait[d].polls = STABILITY_CHECK_COUNT + 1
        /\ wait[d].same = wait[d].polls
        /\ pf[d]["obs"].phase = "convert"

\* C19: after a poll that read a size other than the poll before it, or
\* size 0, or that raised an OSError, stable_count is 0; and the wait never
\* returns True when one of the last STABILITY_CHECK_COUNT polls was such a
\* poll.
C19_CounterReset ==
    [][\A d \in Daemons :
         PollStep(d) =>
           /\ ResetCase(wait[d].obs, wait'[d].obs) => wait'[d].stable_count = 0
           /\ wait'[d].ready =>
                /\ wait'[d].calm >= STABILITY_CHECK_COUNT
                /\ wait'[d].same >= STABILITY_CHECK_COUNT]_vars

\* a wait in which some poll reset the counter (the polls are not those of a
\* file written in one step) and which returned True later
C19_Witness ==
    \E d \in Daemons :
        /\ wait[d].ready
        /\ wait[d].shape = "other"
        /\ wait[d].polls > 2 * STABILITY_CHECK_COUNT

\* C20: a poll that finds the file gone makes the wait return False at that
\* poll; the observer thread lives on, on_created starts no conversion and
\* nothing is written.
C20_GoneAbortsWait ==
    [][\A d \in Daemons :
         (PollStep(d) /\ wait'[d].obs.k = "gone") =>
           /\ wait'[d].phase = "done"
           /\ ~wait'[d].ready
           /\ observer'[d] = observer[d]
           /\ pf'[d]["obs"].phase = "idle"
           /\ UNCHANGED <<fsVars, conv>>]_vars

\* the file was gone at a later poll of a wait that had counted up, and the
\* thread is back in its loop
C20_Witness ==
    \E d \in Daemons :
        /\ Returned(d)
        /\ wait[d].obs.k = "gone"
        /\ wait[d].stable_count > 0
        /\ observer[d] = "alive"
        /\ pf[d]["obs"].phase = "idle"

\* ------------------------------------------------------ converters, claims
\* the pictures of doc that were extracted
RECURSIVE Extracted(_)
Extracted(doc) ==
    IF doc = <<>> THEN 0
    ELSE (IF Head(doc).ok THEN 1 ELSE 0) + Extracted(Tail(doc))

\* img_001 .. img_<n>, in order
Numbered(n) == [k \in 1..n |-> k]

\* C17: every converter returns, for a document with n extracted pictures,
\* exactly the assets img_001 .. img_<n> in document order, and the Markdown
\* refers to each of them exactly once, in document order.
C17_AssetRoundTrip ==
    job.pass = "done" =>
        /\ job.assets = Numbered(Extracted(job.doc))
        /\ job.refs = Numbered(Extracted(job.doc))

\* -------------------------------------------------------- claims: shutdown, instances, ordering
\* stop() sends SIGKILL in this step (it reaches the else clause of its loop)
SendsKill == cli.pc = "kill" /\ cli'.pc = "off"

\* a probe of stop() finds the process gone in this step
ProbeFindsGone ==
    /\ cli.pc = "wait"
    /\ cli' # cli
    /\ Kill0(cli.target) = "ProcessLookupError"

\* C21: stop() sends SIGKILL only after it has sent SIGTERM and made
\* STOP_WAIT_POLLS = 10 probes that all found the process alive; a probe that
\* finds the process gone ends the command without any further signal.
C21_GracefulThenForceful ==
    [][/\ SendsKill =>
            /\ cli.cmd = "stop"
            /\ cli.hadPidFile = cli.target
            /\ cli.polls = STOP_WAIT_POLLS
       /\ ProbeFindsGone =>
            /\ cli'.pc = "off"
            /\ cli'.end = "stopped"
            /\ UNCHANGED SignalVars]_vars

\* stop() has killed a process that outlived SIGTERM and ten probes
C21_Witness ==
    /\ cli.cmd = "stop"
    /\ cli.end = "killed"
    /\ pidFile = "none"

\* a conversion (a handler call or a _process_file) is in progress in d
InFlight(d) == \E t \in Threads : pf[d][t].phase # "idle"

\* d is between the start of its run loop and the end of watcher.stop()
ShuttingDown(d) == pc[d] \in {"loop", "cleanup", "join"}

InRunSequence(d) == pc[d] \in {"sweep", "watch_start", "loop"}

\* the cleanup of d unlinks the PID file in this step
CleanupUnlinks(d) == pc[d] = "unlink" /\ pc'[d] = "off" /\ pidFile # "none"

\* C28: of two start() calls on one PID file path, in any interleaving, at
\* most one reaches the run sequence, and the cleanup of a daemon removes
\* the PID file only if the file holds the id of its own process.
C28_SingleInstance ==
    [][/\ Cardinality({d \in Daemons : InRunSequence(d)'}) <= 1
       /\ \A d \in Daemons : CleanupUnlinks(d) => pidFile = pid[d]]_vars

\* the _process_file calls in progress: daemon, thread
Converting ==
    {c \in Daemons \X Threads : pf[c[1]][c[2]].phase \in {"convert", "write"}}

\* C23: the observer of a daemon is started only after its backlog sweep has
\* returned and handles one event at a time, so at most one _process_file is
\* in progress in any state, and no two of them write into the same output
\* directory at the same time.
C23_SerializedConversions ==
    /\ \A d \in Daemons : observer[d] = "alive" => pc[d] \notin {"run", "sweep"}
    /\ Cardinality(Converting) <= 1
    /\ \A c1, c2 \in Converting :
         c1 # c2 => OutputDir(pf[c1[1]][c1[2]].file) # OutputDir(pf[c2[1]][c2[2]].file)

\* the _wait_for_file_ready call of d's thread t has returned True for the
\* file the thread is about to convert; only on_created, on the observer
\* thread, makes that call
WaitSucceeded(d, t) ==
    /\ t = "obs"
    /\ wait[d].phase = "done"
    /\ wait[d].ready

\* C24: on the event path and on the sweep path alike, converter.convert is
\* called on a file only after a stability wait on it has returned True.
C24_StableBeforeConvert ==
    [][\A d \in Daemons, t \in Threads :
         ConvertStep(d, t) => WaitSucceeded(d, t)]_vars

\* d is in its run loop with nothing left to do: no event waits, no handler
\* call and no conversion is in progress
Quiescent(d) ==
    /\ pc[d] = "loop"
    /\ observer[d] = "alive"
    /\ queue[d] = <<>>
    /\ ~InFlight(d)

\* f came into the source tree after the latest sweep had begun, is a well
\* formed document of a supported format that has a converter, and no stability
\* wait on it and no write of its output has failed
Arrival(d, f) ==
    /\ srcMtime[f] # NoFile
    /\ f \notin SweepEligible
    /\ srcDoc[f].ok
    /\ EarlyReturn([src_path |-> f, is_directory |-> FALSE]) = "none"
    /\ ~(wait[d].phase = "done" /\ ~wait[d].ready)
    /\ conv[f].end # "io"

\* C25: a file that arrives between the start of the backlog sweep and the
\* shutdown of the daemon, and that becomes stable, is converted by the
\* running daemon: once the daemon has nothing left to do, the file has been
\* converted.
C25_NoMissedArrival ==
    \A d \in Daemons :
        Quiescent(d) => \A f \in WaitFiles : Arrival(d, f) => Converted(f)

\* C26: a termination signal that _handle_signal has taken is not lost: a
\* daemon that got one and stands in its run loop has its running flag
\* down, so the next test of the loop condition leaves the loop and _cleanup
\* stops the watcher and removes the PID file. (The loop tests nothing but
\* the flag and the observer, so with the flag up it sleeps on.)
C26_NoLostSignal ==
    \A d \in Daemons : (signalled[d] /\ pc[d] = "loop") => ~running[d]

\* daemon d's thread t writes the Markdown of its conversion in this step
\* and _process_file returns normally
WritesMarkdown(d, t) ==
    /\ pf[d][t].phase = "write"
    /\ pf'[d][t].phase = "idle"
    /\ conv'[pf[d][t].file].end = "ok"

\* the source of that conversion was modified after the converter read it
ModifiedSinceRead(d, t) == pf[d][t].start < srcMtime[pf[d][t].file]

\* C27: a modification made while a conversion was between its read and its
\* write is not lost: when that conversion has written its Markdown, the
\* staleness test of the backlog sweep (the only thing a sweep decides by)
\* still finds the source newer than its output, so that the next sweep
\* converts it again.
C27_ModificationNotLost ==
    [][\A d \in Daemons, t \in Threads :
         (WritesMarkdown(d, t) /\ ModifiedSinceRead(d, t))
         => srcMtime'[pf[d][t].file] > mdMtime'[OutputDir(pf[d][t].file)]]_vars

\* C29: a conversion that succeeds replaces the Markdown file (it carries
\* the stamp of this write, i.e. the content of this result) and writes the
\* assets of its result; every asset file of the output location that the
\* result does not name is left as it was, neither removed nor rewritten.
C29_ReconversionKeepsAssets ==
    [][\A d \in Daemons, t \in Threads :
         WritesMarkdown(d, t) =>
             LET o == OutputDir(pf[d][t].file)
                 n == pf[d][t].imgs
             IN  /\ mdMtime'[o] = now
                 /\ \A k \in 1..MaxImgs :
                        assets'[o][k] = IF k <= n THEN now ELSE assets[o][k]]_vars

\* C29 witness: a source with an image was converted, then rewritten without
\* images and converted again: the Markdown is of the later conversion and
\* the image file of the earlier one is still there with its older stamp
C29_Witness ==
    \E f \in AssetFiles :
        /\ Converted(f)
        /\ srcDoc[f].imgs = 0
        /\ assets[OutputDir(f)][1] # NoFile
        /\ assets[OutputDir(f)][1] < mdMtime[OutputDir(f)]
        /\ mdMtime[OutputDir(f)] >= srcMtime[f]

\* C30: whatever assets_dirname is configured, once _process_file has
\* written the assets of a result, every image reference in the Markdown of
\* that result names, relative to the Markdown file's directory, one of the
\* files written.
C30_ReferencesResolve ==
    job.pass = "written" => RefTargets(job) \subseteq written

====
